---- MODULE Spec2Model ----
(***************************************************************************)
(* State-machine model of the Cloudflare Browser Rendering skill:          *)
(*   - CloudflareBrowserRenderingClient._makeRequest and the client        *)
(*     methods the batch processor calls (scripts/setup-config.js),        *)
(*   - BatchProcessor.batchScreenshots / batchPdfs / batchExtractContent   *)
(*     (scripts/batch-processor.js),                                       *)
(*   - getRetryDelay (scripts/batch-processor.js) and the documented       *)
(*     requestWithRetry wrapper (doc/README.md),                           *)
(*   - createConfig / loadConfig / validateConfig                          *)
(*     (scripts/batch-processor.js) with the JSON texts they read and      *)
(*     write,                                                              *)
(*   - CloudflareBrowserRenderingClient.jsonExtract.                       *)
(* One behaviour of the model is one use of the library: Init picks the    *)
(* entry point (api) and its arguments, the actions are the steps of a     *)
(* call between two suspension points (await), or whole calls of the       *)
(* configuration functions one after the other.                            *)
(***************************************************************************)
EXTENDS Integers, Sequences, FiniteSets, TLC

VARIABLES
    api,        \* the entry point this behaviour runs
    urls,       \* batch*: the urls argument
    options,    \* batch*: the options argument (fields may be absent)
    config,     \* BatchProcessor constructor argument (maxWorkers may be absent)
    maxWorkers, \* this.maxWorkers
    pc,         \* position of the call (the await it is suspended at)
    i,          \* batch*: the loop variable i (0-based)
    results,    \* batch*: the local results array
    artifact,   \* batch*: the data the client call returned, awaiting _writeFile
    inFlight,   \* number of client calls issued and not yet settled
    calls,      \* history: one record per client call issued by the batch
    events,     \* history: "request" per client call issued, "wait" per _delay elapsed
    thrown,     \* errors that propagated out of the call (at most one)
    retry,      \* requestWithRetry: its locals and the history of its attempts
    gd,         \* getRetryDelay: its arguments, the Math.random() draw, its result
    item,       \* batch*: the locals filename, filepath, timestamp of the iteration
    writes,     \* history: one record per _writeFile call of the batch
    clock,      \* the wall clock, in the unit _getTimestamp keeps (see GetTimestamp)
    signal,     \* the caller's cancellation signal, and the progress when it was raised
    cf,         \* createConfig / loadConfig: the two files and the calls made
    je,         \* jsonExtract: its options and the requests it sent
    thisResults, \* this.results, the field the constructor sets
    other       \* a second batch call on the same instance, suspended at an await

vars == <<api, urls, options, config, maxWorkers, pc, i, results, artifact,
          inFlight, calls, events, thrown, retry, gd, item, writes, clock,
          signal, cf, je, thisResults, other>>

(***************************************************************************)
(* Bounds of the model                                                     *)
(***************************************************************************)
MaxUrls == 2
MaxClock == 1
MaxConfigCalls == 2
MaxRetries == 3
MaxAttemptNo == 3
RandDenom == 3

(***************************************************************************)
(* Program constants                                                       *)
(***************************************************************************)
DefaultMaxWorkers == 3
DefaultBaseDelay == 1000
DefaultMaxRetries == 3
JitterRange == 1000

(***************************************************************************)
(* Inputs                                                                  *)
(***************************************************************************)
\* The second URL has a comma in its path.
Urls == {"https://a.example", "https://b.example/x,y"}

\* The text of a URL, cut so that a comma, a double quote or a line break is
\* a piece of its own.
UrlText(url) ==
    IF url = "https://b.example/x,y"
    THEN <<"https://b.example/x", ",", "y">>
    ELSE <<url>>

\* new URL(url).hostname, as its dot-separated labels
HostLabels(url) ==
    IF url = "https://b.example/x,y" THEN <<"b", "example">> ELSE <<"a", "example">>

\* the outputDir argument
OutputDir == "out"

\* the urls argument: every list of up to two URLs; a longer list alternates
\* between the two URLs
UrlLists ==
    {u \in UNION {[1..n -> Urls] : n \in 0..MaxUrls} :
        \A k \in 3..Len(u) : u[k] = u[k - 2] /\ u[k] # u[k - 1]}

\* options.delay: absent, 0, or a positive interval; options.maxAttempts is a
\* field callers may pass and the batch methods never read.
DelayValues == {0, 2000}
MaxAttemptsValues == {1, 3}

OptionsSet ==
    {[maxAttempts |-> m] : m \in MaxAttemptsValues}
    \cup {[maxAttempts |-> 1, delay |-> d] : d \in DelayValues}

ConfigSet == {[accountId |-> "acct"]}
             \cup {[accountId |-> "acct", maxWorkers |-> k] : k \in {-1, 0, 1, 2}}

\* The batch entry points; batchExtractContent is split by options.contentType.
BatchApis == {"batchScreenshots", "batchPdfs", "batchExtractHtml", "batchExtractMarkdown"}

(***************************************************************************)
(* The remote service: what one HTTP exchange can produce                  *)
(***************************************************************************)
ApiError(c, m) == [code |-> c, message |-> m]

\* rendered: the service rendered the page (binary body, or a success envelope)
\* failure : the service answered {success: false, errors: [...]}
\* network : fetch itself rejected
Responses ==
    { [kind |-> "rendered"],
      [kind |-> "failure", errors |-> <<ApiError("10000", "Authentication error")>>],
      [kind |-> "failure", errors |-> <<ApiError("10030", "Page load timeout")>>],
      [kind |-> "network", message |-> "fetch failed"] }

IsBinaryEndpoint(endpoint) == endpoint = "pdf" \/ endpoint = "screenshot"

\* response.errors?.map(e => `${e.code}: ${e.message}`).join(', ') || 'Unknown error'
\* A message is a sequence of text pieces.
RECURSIVE JoinErrors(_)
JoinErrors(errors) ==
    IF Len(errors) = 0 THEN <<>>
    ELSE IF Len(errors) = 1
         THEN <<errors[1].code, ": ", errors[1].message>>
         ELSE <<errors[1].code, ": ", errors[1].message, ", ">> \o JoinErrors(Tail(errors))

ErrorMsg(errors) ==
    IF JoinErrors(errors) = <<>> THEN <<"Unknown error">> ELSE JoinErrors(errors)

StartsWithApiError(message) == Len(message) > 0 /\ message[1] = "API error: "

\* The catch block of _makeRequest.
RethrowRequest(message) ==
    IF StartsWithApiError(message) THEN message ELSE <<"Request failed: ">> \o message

\* _makeRequest(endpoint, data) against one exchange with the service:
\* [ok |-> TRUE, data |-> ...] when the promise resolves,
\* [ok |-> FALSE, message |-> ...] when it rejects.
MakeRequest(endpoint, resp) ==
    IF resp.kind = "network"
    THEN [ok |-> FALSE, message |-> RethrowRequest(<<resp.message>>)]
    ELSE IF IsBinaryEndpoint(endpoint)
    THEN [ok |-> TRUE,
          data |-> IF resp.kind = "rendered" THEN "bytes" ELSE "failure-envelope-bytes"]
    ELSE IF resp.kind = "failure"
    THEN [ok |-> FALSE,
          message |-> RethrowRequest(<<"API error: ">> \o ErrorMsg(resp.errors))]
    ELSE [ok |-> TRUE, data |-> "text"]

\* The client method each batch entry point calls.
Endpoint(a) ==
    CASE a = "batchScreenshots" -> "screenshot"
      [] a = "batchPdfs" -> "pdf"
      [] a = "batchExtractHtml" -> "content"
      [] OTHER -> "markdown"

(***************************************************************************)
(* BatchProcessor                                                          *)
(***************************************************************************)
ConstructorAtLeastOne(cfg) ==
    IF "maxWorkers" \in DOMAIN cfg /\ cfg.maxWorkers >= 1
    THEN cfg.maxWorkers
    ELSE 1

\* this.maxWorkers = config.maxWorkers || 3
Constructor(cfg) ==
    IF "maxWorkers" \in DOMAIN cfg /\ cfg.maxWorkers # 0
    THEN cfg.maxWorkers
    ELSE DefaultMaxWorkers

\* options.delay > 0
DelayConfigured(opts) == "delay" \in DOMAIN opts /\ opts.delay > 0

\* now.toISOString().replace(/[:.]/g, '').slice(0, -5): with the dot of the
\* milliseconds removed first, the slice drops 'sssZ' and the last digit of the
\* seconds, so the text changes every ten seconds. clock counts those periods.
GetTimestamp(c) == ToString(c)

\* hostname.replace(/\./g, '_')
RECURSIVE JoinLabels(_)
JoinLabels(labels) ==
    IF Len(labels) = 0 THEN <<>>
    ELSE IF Len(labels) = 1 THEN <<labels[1]>>
    ELSE <<labels[1], "_">> \o JoinLabels(Tail(labels))

\* _getDomain(url); every URL of Urls parses, so the catch ('unknown') is not taken
GetDomain(url) == JoinLabels(HostLabels(url))

Extension(a) ==
    CASE a = "batchScreenshots" -> "png"
      [] a = "batchPdfs" -> "pdf"
      [] a = "batchExtractHtml" -> "html"
      [] OTHER -> "md"

\* const filename = `${domain}_${timestamp}.${extension}`
Filename(a, url, c) == GetDomain(url) \o <<"_", GetTimestamp(c), ".", Extension(a)>>

\* const filepath = `${outputDir}/${filename}`
Filepath(a, url, c) == <<OutputDir, "/">> \o Filename(a, url, c)

\* pdf.length || pdf.size, content.length
DataSize(data) ==
    CASE data = "bytes" -> 2048
      [] data = "failure-envelope-bytes" -> 96
      [] OTHER -> 512

SuccessResultNoFile(a, url, it, data) ==
    [url |-> url, status |-> "success", timestamp |-> it.timestamp]

\* { url, status: 'success', filepath, filename, timestamp } and, by method,
\* sizeBytes (batchPdfs) or contentType and sizeChars (batchExtractContent)
SuccessResult(a, url, it, data) ==
    LET base == [url |-> url, status |-> "success", filepath |-> it.filepath,
                 filename |-> it.filename, timestamp |-> it.timestamp]
    IN CASE a = "batchScreenshots" -> base
         [] a = "batchPdfs" ->
              [url |-> url, status |-> "success", filepath |-> it.filepath,
               filename |-> it.filename, timestamp |-> it.timestamp,
               sizeBytes |-> DataSize(data)]
         [] OTHER ->
              [url |-> url, status |-> "success", filepath |-> it.filepath,
               filename |-> it.filename, timestamp |-> it.timestamp,
               contentType |-> IF a = "batchExtractHtml" THEN "html" ELSE "markdown",
               sizeChars |-> DataSize(data)]

ErrorResultFailedStatus(url, message, ts) ==
    [url |-> url, status |-> "failed", error |-> message, timestamp |-> ts]

\* { url, status: 'error', error: error.message, timestamp: this._getTimestamp() }
ErrorResult(url, message, ts) ==
    [url |-> url, status |-> "error", error |-> message, timestamp |-> ts]

PushResultFront(rs, r) == <<r>> \o rs

\* results.push(result)
PushResult(rs, r) == Append(rs, r)

InBatch == api \in BatchApis

BatchUnchanged == UNCHANGED <<api, urls, options, config, maxWorkers, retry, gd,
                             signal, cf, je, thisResults, other>>

\* await this._ensureDir(outputDir)
EnsureDir ==
    /\ InBatch /\ pc = "ensureDir"
    /\ \/ pc' = "loop" /\ thrown' = thrown
       \/ pc' = "thrown" /\ thrown' = Append(thrown, [at |-> "ensureDir", message |-> <<"EACCES">>])
    /\ UNCHANGED <<i, results, artifact, inFlight, calls, events, item, writes, clock>>
    /\ BatchUnchanged

BeginItemNoAwait ==
    /\ InBatch /\ pc = "loop" /\ i < Len(urls)
    /\ inFlight' = inFlight + 1
    /\ events' = Append(events, "request")
    /\ i' = i + 1
    /\ UNCHANGED <<pc, results, artifact, calls, thrown, item, writes, clock>>
    /\ BatchUnchanged

BeginItemPooled ==
    /\ InBatch /\ pc = "loop" /\ i < Len(urls)
    /\ item' = [filename |-> Filename(api, urls[i + 1], clock),
                filepath |-> Filepath(api, urls[i + 1], clock),
                timestamp |-> GetTimestamp(clock)]
    /\ pc' = "request"
    /\ LET n == IF maxWorkers >= 1 /\ maxWorkers < Len(urls) - i
                THEN maxWorkers
                ELSE IF maxWorkers >= 1 THEN Len(urls) - i ELSE 1
       IN /\ inFlight' = inFlight + n
          /\ events' = events \o [k \in 1..n |-> "request"]
    /\ UNCHANGED <<i, results, artifact, calls, thrown, writes, clock>>
    /\ BatchUnchanged

\* for (let i = 0; i < urls.length; i++) { const domain, timestamp, filename,
\* filepath = ...; await this.client.<method>(url, ...)
BeginItem ==
    /\ InBatch /\ pc = "loop" /\ i < Len(urls)
    /\ item' = [filename |-> Filename(api, urls[i + 1], clock),
                filepath |-> Filepath(api, urls[i + 1], clock),
                timestamp |-> GetTimestamp(clock)]
    /\ pc' = "request"
    /\ inFlight' = inFlight + 1
    /\ events' = Append(events, "request")
    /\ UNCHANGED <<i, results, artifact, calls, thrown, writes, clock>>
    /\ BatchUnchanged

CatchItemRethrow(message) ==
    /\ pc' = "thrown"
    /\ thrown' = Append(thrown, [at |-> "item", message |-> message])
    /\ UNCHANGED <<i, results>>

CatchItemRetry(message) ==
    /\ IF Cardinality({k \in 1..Len(calls) : calls[k].index = i})
            + (IF pc = "request" THEN 1 ELSE 0) < options.maxAttempts
       THEN UNCHANGED <<i, results>>
       ELSE /\ results' = PushResult(results,
                                     ErrorResult(urls[i + 1], message, GetTimestamp(clock)))
            /\ i' = i + 1
    /\ pc' = "loop"
    /\ thrown' = thrown

\* catch (error) { results.push({url, status: 'error', error: error.message, ...}) }
\* and the loop's i++
CatchItem(message) ==
    /\ results' = PushResult(results, ErrorResult(urls[i + 1], message, GetTimestamp(clock)))
    /\ i' = i + 1
    /\ pc' = "loop"
    /\ thrown' = thrown

\* The client call settles: the service's exchange decides how.
Respond ==
    /\ InBatch /\ pc = "request"
    /\ \E resp \in Responses :
         LET r == MakeRequest(Endpoint(api), resp) IN
         /\ inFlight' = inFlight - 1
         /\ calls' = Append(calls, [index |-> i, resp |-> resp, result |-> r])
         /\ IF r.ok
            THEN /\ pc' = "write"
                 /\ artifact' = <<r.data>>
                 /\ UNCHANGED <<i, results, thrown>>
            ELSE /\ CatchItem(r.message)
                 /\ artifact' = artifact
    /\ UNCHANGED <<events, item, writes, clock>>
    /\ BatchUnchanged

WriteArtifactSuccessFirst ==
    /\ InBatch /\ pc = "write"
    /\ artifact' = <<>>
    /\ \E ok \in BOOLEAN :
         writes' = Append(writes, [path |-> item.filepath, data |-> artifact[1],
                                   ok |-> ok, index |-> i])
    /\ results' = PushResult(results, SuccessResult(api, urls[i + 1], item, artifact[1]))
    /\ IF DelayConfigured(options) /\ i < Len(urls) - 1
       THEN pc' = "delay" /\ i' = i
       ELSE pc' = "loop" /\ i' = i + 1
    /\ thrown' = thrown
    /\ UNCHANGED <<inFlight, calls, events, item, clock>>
    /\ BatchUnchanged

\* await this._writeFile(filepath, data); results.push(success);
\* if (options.delay > 0 && i < urls.length - 1) await this._delay(options.delay)
WriteArtifact ==
    /\ InBatch /\ pc = "write"
    /\ artifact' = <<>>
    /\ \/ /\ writes' = Append(writes, [path |-> item.filepath, data |-> artifact[1],
                                        ok |-> TRUE, index |-> i])
          /\ results' = PushResult(results,
                                   SuccessResult(api, urls[i + 1], item, artifact[1]))
          /\ IF DelayConfigured(options) /\ i < Len(urls) - 1
             THEN pc' = "delay" /\ i' = i
             ELSE pc' = "loop" /\ i' = i + 1
          /\ thrown' = thrown
       \/ /\ writes' = Append(writes, [path |-> item.filepath, data |-> artifact[1],
                                        ok |-> FALSE, index |-> i])
          /\ CatchItem(<<"ENOSPC: no space left on device">>)
    /\ UNCHANGED <<inFlight, calls, events, item, clock>>
    /\ BatchUnchanged

DelayElapsedSameItem ==
    /\ InBatch /\ pc = "delay"
    /\ events' = Append(events, "wait")
    /\ pc' = "loop"
    /\ UNCHANGED <<i, results, artifact, inFlight, calls, thrown, item, writes, clock>>
    /\ BatchUnchanged

\* the timer of this._delay fires; the loop's i++
DelayElapsed ==
    /\ InBatch /\ pc = "delay"
    /\ events' = Append(events, "wait")
    /\ i' = i + 1
    /\ pc' = "loop"
    /\ UNCHANGED <<results, artifact, inFlight, calls, thrown, item, writes, clock>>
    /\ BatchUnchanged

\* Time passes while the call is suspended in the request to the service or
\* in the wait between two items (the awaits that last).
Tick ==
    /\ InBatch /\ pc \in {"request", "delay"}
    /\ clock < MaxClock
    /\ clock' = clock + 1
    /\ UNCHANGED <<pc, i, results, artifact, inFlight, calls, events, thrown, item, writes>>
    /\ BatchUnchanged

EndLoopOnSignal ==
    /\ InBatch /\ pc = "loop" /\ (~(i < Len(urls)) \/ signal.raised)
    /\ pc' = "writeJson"
    /\ UNCHANGED <<i, results, artifact, inFlight, calls, events, thrown, item, writes, clock>>
    /\ BatchUnchanged

EndLoopCsvFirst ==
    /\ InBatch /\ pc = "loop" /\ ~(i < Len(urls))
    /\ pc' = "writeCsv"
    /\ UNCHANGED <<i, results, artifact, inFlight, calls, events, thrown, item, writes, clock>>
    /\ BatchUnchanged

\* the loop ends
EndLoop ==
    /\ InBatch /\ pc = "loop" /\ ~(i < Len(urls))
    /\ pc' = "writeJson"
    /\ UNCHANGED <<i, results, artifact, inFlight, calls, events, thrown, item, writes, clock>>
    /\ BatchUnchanged

\* return results: the value the caller gets is the outcome list and nothing else
Report(rs) == [outcomes |-> rs]

\* The caller raises a cancellation signal while the batch call runs. The
\* batch methods take no signal and test none, so this changes nothing else.
Cancel ==
    /\ InBatch /\ pc \notin {"returned", "thrown"}
    /\ ~signal.raised
    /\ signal' = [raised |-> TRUE,
                  started |-> Cardinality({k \in 1..Len(events) : events[k] = "request"}),
                  completed |-> Len(results)]
    /\ UNCHANGED <<api, urls, options, config, maxWorkers, pc, i, results, artifact,
                   inFlight, calls, events, thrown, retry, gd, item, writes, clock,
                   cf, je, thisResults, other>>

\* The locals and the position of the running call, as the suspended call
\* numbered id keeps them.
Suspended(id) ==
    [id |-> id, urls |-> urls, pc |-> pc, i |-> i, results |-> results,
     artifact |-> artifact, inFlight |-> inFlight, calls |-> calls,
     events |-> events, thrown |-> thrown, item |-> item, writes |-> writes]

SwitchSharedResults ==
    /\ InBatch /\ other.id # 0
    /\ other.pc \notin {"returned", "thrown"}
    /\ other' = [Suspended(3 - other.id) EXCEPT !.results = other.results]
    /\ urls' = other.urls /\ pc' = other.pc /\ i' = other.i
    /\ results' = results
    /\ artifact' = other.artifact /\ inFlight' = other.inFlight
    /\ calls' = other.calls /\ events' = other.events /\ thrown' = other.thrown
    /\ item' = other.item /\ writes' = other.writes
    /\ UNCHANGED <<api, options, config, maxWorkers, retry, gd, clock, signal, cf, je,
                   thisResults>>

\* Two batch calls on one instance: the running call is suspended at its
\* await and the event loop resumes the other one. Each call's urls, i,
\* results and iteration locals are its own; the instance is shared.
Switch ==
    /\ InBatch /\ other.id # 0
    /\ other.pc \notin {"returned", "thrown"}
    /\ other' = Suspended(3 - other.id)
    /\ urls' = other.urls /\ pc' = other.pc /\ i' = other.i
    /\ results' = other.results
    /\ artifact' = other.artifact /\ inFlight' = other.inFlight
    /\ calls' = other.calls /\ events' = other.events /\ thrown' = other.thrown
    /\ item' = other.item /\ writes' = other.writes
    /\ UNCHANGED <<api, options, config, maxWorkers, retry, gd, clock, signal, cf, je,
                   thisResults>>

\* The characters a CSV reader gives a meaning to; every other piece of text
\* in the model is free of them.
Comma == ","
DQuote == "\""
LineBreak == "\n"

\* 'screenshot', 'pdf' or contentType in `${outputDir}/..._results.json|csv`
ResultsBase(a) ==
    CASE a = "batchScreenshots" -> "screenshot"
      [] a = "batchPdfs" -> "pdf"
      [] a = "batchExtractHtml" -> "html"
      [] OTHER -> "markdown"

ResultsFile(a) == <<OutputDir, "/", ResultsBase(a), "_results.json">>
CsvFile(a) == <<OutputDir, "/", ResultsBase(a), "_results.csv">>

\* the column names of the header line, by method
CsvColumns(a) ==
    CASE a = "batchScreenshots" ->
           <<"URL", "Status", "FilePath", "FileName", "Timestamp", "Error">>
      [] a = "batchPdfs" ->
           <<"URL", "Status", "FilePath", "FileName", "Timestamp", "SizeBytes", "Error">>
      [] OTHER ->
           <<"URL", "Status", "FilePath", "FileName", "Timestamp", "ContentType",
             "SizeChars", "Error">>

\* parts.join(sep), on sequences of pieces
RECURSIVE JoinWith(_, _)
JoinWith(parts, sep) ==
    IF Len(parts) = 0 THEN <<>>
    ELSE IF Len(parts) = 1 THEN parts[1]
    ELSE parts[1] \o <<sep>> \o JoinWith(Tail(parts), sep)

\* 'URL,Status,...': the header is one literal line
CsvHeader(a) == JoinWith([k \in 1..Len(CsvColumns(a)) |-> <<CsvColumns(a)[k]>>], Comma)

\* `"${r.field || ''}"`: the text between two double quotes, nothing escaped
Quoted(text) == <<DQuote>> \o text \o <<DQuote>>

\* r.field || '' for the fields that are text (sequences of pieces)
TextOr(r, f) == IF f \in DOMAIN r THEN r[f] ELSE <<>>

\* r.field || '' for the fields that are one string or one number
AtomOr(r, f) ==
    IF f \notin DOMAIN r THEN <<>>
    ELSE IF f \in {"sizeBytes", "sizeChars"} THEN <<ToString(r[f])>>
    ELSE <<r[f]>>

\* results.map(r => `${r.url},"${r.status}","${r.filepath || ''}",...`)
CsvRow(a, r) ==
    LET common == <<UrlText(r.url), Quoted(<<r.status>>), Quoted(TextOr(r, "filepath")),
                    Quoted(TextOr(r, "filename")), Quoted(AtomOr(r, "timestamp"))>>
        extra == CASE a = "batchScreenshots" -> <<>>
                   [] a = "batchPdfs" -> <<Quoted(AtomOr(r, "sizeBytes"))>>
                   [] OTHER -> <<Quoted(AtomOr(r, "contentType")),
                                 Quoted(AtomOr(r, "sizeChars"))>>
    IN JoinWith(common \o extra \o <<Quoted(TextOr(r, "error"))>>, Comma)

\* [header, ...rows].join('\n')
CsvContent(a, rs) ==
    JoinWith(<<CsvHeader(a)>> \o [k \in 1..Len(rs) |-> CsvRow(a, rs[k])], LineBreak)

\* JSON.stringify(results, null, 2): the text of the outcome list
JsonContent(rs) == [stringified |-> rs]

WriteJsonSwallow ==
    /\ InBatch /\ pc = "writeJson"
    /\ \E ok \in BOOLEAN :
         writes' = Append(writes, [path |-> ResultsFile(api),
                                   data |-> JsonContent(results), ok |-> ok])
    /\ pc' = "writeCsv"
    /\ UNCHANGED <<i, results, artifact, inFlight, calls, events, thrown, item, clock>>
    /\ BatchUnchanged

\* await this._writeFile(resultsFile, JSON.stringify(results, null, 2))
WriteJson ==
    /\ InBatch /\ pc = "writeJson"
    /\ \/ /\ writes' = Append(writes, [path |-> ResultsFile(api),
                                        data |-> JsonContent(results), ok |-> TRUE])
          /\ pc' = "writeCsv" /\ thrown' = thrown
       \/ /\ writes' = Append(writes, [path |-> ResultsFile(api),
                                        data |-> JsonContent(results), ok |-> FALSE])
          /\ pc' = "thrown"
          /\ thrown' = Append(thrown, [at |-> "writeJson", message |-> <<"ENOSPC">>])
    /\ UNCHANGED <<i, results, artifact, inFlight, calls, events, item, clock>>
    /\ BatchUnchanged

\* await this._writeFile(csvFile, csvContent); ...; return results
WriteCsv ==
    /\ InBatch /\ pc = "writeCsv"
    /\ \/ /\ writes' = Append(writes, [path |-> CsvFile(api),
                                        data |-> CsvContent(api, results), ok |-> TRUE])
          /\ pc' = "returned" /\ thrown' = thrown
       \/ /\ writes' = Append(writes, [path |-> CsvFile(api),
                                        data |-> CsvContent(api, results), ok |-> FALSE])
          /\ pc' = "thrown"
          /\ thrown' = Append(thrown, [at |-> "writeCsv", message |-> <<"ENOSPC">>])
    /\ UNCHANGED <<i, results, artifact, inFlight, calls, events, item, clock>>
    /\ BatchUnchanged

\* results.filter(r => r.status === 'success').length
SuccessCount(rs) == Cardinality({k \in 1..Len(rs) : rs[k].status = "success"})

\* results.filter(r => r.status === 'error').length
FailedCount(rs) == Cardinality({k \in 1..Len(rs) : rs[k].status = "error"})

(***************************************************************************)
(* getRetryDelay and the documented requestWithRetry wrapper               *)
(***************************************************************************)
\* Math.pow(b, e) for integer e >= 0
RECURSIVE Pow(_, _)
Pow(b, e) == IF e = 0 THEN 1 ELSE b * Pow(b, e - 1)

\* the default parameter baseDelay = 1000
BaseDelayOf(args) ==
    IF "baseDelay" \in DOMAIN args THEN args.baseDelay ELSE DefaultBaseDelay

\* Math.random() is the fraction rnd / RandDenom with rnd in 0..RandDenom-1.
RandomDraws == 0..(RandDenom - 1)

\* Times are kept in units of 1/RandDenom millisecond, so that the jitter
\* Math.random() * 1000 is exact: Ms(x) is x milliseconds in that unit.
Ms(x) == x * RandDenom

GetRetryDelayLinear(args, rnd) ==
    Ms(BaseDelayOf(args) * 2 * args.attempt) + rnd * JitterRange

\* getRetryDelay(attempt, baseDelay = 1000):
\*   delay = baseDelay * Math.pow(2, attempt); jitter = Math.random() * 1000;
\*   return delay + jitter
GetRetryDelay(args, rnd) ==
    LET delay == BaseDelayOf(args) * Pow(2, args.attempt)
        jitter == rnd * JitterRange
    IN Ms(delay) + jitter

InGd == api = "getRetryDelay"

GetRetryDelayCall ==
    /\ InGd /\ pc = "call"
    /\ \E rnd \in RandomDraws :
         gd' = [gd EXCEPT !.random = rnd, !.result = <<GetRetryDelay(gd.args, rnd)>>]
    /\ pc' = "returned"
    /\ UNCHANGED <<api, urls, options, config, maxWorkers, i, results, artifact,
                   inFlight, calls, events, thrown, retry, item, writes, clock,
                   signal, cf, je, thisResults, other>>

\* the default parameter maxRetries = 3
MaxRetriesOf(args) ==
    IF "maxRetries" \in DOMAIN args THEN args.maxRetries ELSE DefaultMaxRetries

RetryLoopTestOffByOne(attempt, maxRetries) == attempt <= maxRetries

\* for (...; attempt < maxRetries; ...)
RetryLoopTest(attempt, maxRetries) == attempt < maxRetries

InRetry == api = "requestWithRetry"

RetryUnchanged == UNCHANGED <<api, urls, options, config, maxWorkers, i, results,
                              artifact, calls, events, gd, item, writes, clock,
                              signal, cf, je, thisResults, other>>

\* the loop test holds: try { return await requestFunc() }
RetryAttempt ==
    /\ InRetry /\ pc = "loop"
    /\ RetryLoopTest(retry.attempt, MaxRetriesOf(retry.args))
    /\ pc' = "call"
    /\ inFlight' = inFlight + 1
    /\ UNCHANGED <<retry, thrown>>
    /\ RetryUnchanged

\* requestFunc() settles. It resolves: return. It rejects: lastError = error,
\* and unless this was the last attempt, wait getRetryDelay(attempt).
RetrySettle ==
    /\ InRetry /\ pc = "call"
    /\ inFlight' = inFlight - 1
    /\ \E resp \in Responses :
         LET r == MakeRequest(retry.args.endpoint, resp)
             h == Append(retry.hist, [attempt |-> retry.attempt, resp |-> resp, result |-> r])
         IN
         IF r.ok
         THEN /\ retry' = [retry EXCEPT !.hist = h]
              /\ pc' = "returned"
         ELSE IF retry.attempt < MaxRetriesOf(retry.args) - 1
         THEN /\ \E rnd \in RandomDraws :
                   retry' = [retry EXCEPT
                               !.hist = h,
                               !.lastError = <<r.message>>,
                               !.delays = Append(@, [attempt |-> retry.attempt,
                                                     random |-> rnd,
                                                     value |-> GetRetryDelay([attempt |-> retry.attempt], rnd)])]
              /\ pc' = "sleep"
         ELSE /\ retry' = [retry EXCEPT !.hist = h, !.lastError = <<r.message>>,
                                        !.attempt = @ + 1]
              /\ pc' = "loop"
    /\ thrown' = thrown
    /\ RetryUnchanged

\* the timer of the backoff wait fires; attempt++
RetrySleepElapsed ==
    /\ InRetry /\ pc = "sleep"
    /\ retry' = [retry EXCEPT !.attempt = @ + 1]
    /\ pc' = "loop"
    /\ UNCHANGED <<inFlight, thrown>>
    /\ RetryUnchanged

\* the loop test fails: throw lastError
RetryExhausted ==
    /\ InRetry /\ pc = "loop"
    /\ ~RetryLoopTest(retry.attempt, MaxRetriesOf(retry.args))
    /\ pc' = "thrown"
    /\ thrown' = Append(thrown, [at |-> "requestWithRetry", message |-> retry.lastError])
    /\ UNCHANGED <<retry, inFlight>>
    /\ RetryUnchanged

(***************************************************************************)
(* config.js: JSON texts and values                                        *)
(***************************************************************************)
\* A JSON value is [str |-> pieces], [num |-> literal] or [obj |-> members],
\* members being a sequence of [k |-> pieces, v |-> value] in insertion order.
\* A JSON text is a sequence of pieces: the punctuation below, each a piece of
\* its own, and pieces of plain text.
Backslash == "\\"
Space == " "
OpenBrace == "{"
CloseBrace == "}"
Colon == ":"

NumberLiterals == {"1280", "30000"}

Str(pieces) == [str |-> pieces]
Num(literal) == [num |-> literal]
Obj(members) == [obj |-> members]
IsStr(v) == DOMAIN v = {"str"}
IsObj(v) == DOMAIN v = {"obj"}

\* the string escapes of JSON.stringify: \" for a double quote, \\ for a backslash
RECURSIVE EscapeJson(_)
EscapeJson(pieces) ==
    IF Len(pieces) = 0 THEN <<>>
    ELSE (IF Head(pieces) \in {DQuote, Backslash}
          THEN <<Backslash, Head(pieces)>>
          ELSE <<Head(pieces)>>) \o EscapeJson(Tail(pieces))

StringifyString(pieces) == <<DQuote>> \o EscapeJson(pieces) \o <<DQuote>>

\* JSON.stringify(value, null, 2); line breaks and indentation are white space,
\* written here as one line break where stringify breaks the line
RECURSIVE Stringify(_)
Stringify(v) ==
    IF IsStr(v) THEN StringifyString(v.str)
    ELSE IF ~IsObj(v) THEN <<v.num>>
    ELSE IF Len(v.obj) = 0 THEN <<OpenBrace, CloseBrace>>
    ELSE <<OpenBrace, LineBreak>>
         \o JoinWith([m \in 1..Len(v.obj) |->
                        StringifyString(v.obj[m].k) \o <<Colon, Space>>
                        \o Stringify(v.obj[m].v) \o <<LineBreak>>], Comma)
         \o <<CloseBrace>>

\* obj[key] = value: an existing key keeps its place, a new one goes last
RECURSIVE SetField(_, _, _)
SetField(members, key, value) ==
    IF Len(members) = 0 THEN <<[k |-> key, v |-> value]>>
    ELSE IF Head(members).k = key THEN <<[k |-> key, v |-> value]>> \o Tail(members)
    ELSE <<Head(members)>> \o SetField(Tail(members), key, value)

HasField(members, key) == \E m \in 1..Len(members) : members[m].k = key

\* obj[key], for a key the object has
GetField(members, key) ==
    members[CHOOSE m \in 1..Len(members) : members[m].k = key].v

Failed == [ok |-> FALSE]

RECURSIVE SkipWs(_, _)
SkipWs(t, k) ==
    IF k <= Len(t) /\ t[k] \in {Space, LineBreak} THEN SkipWs(t, k + 1) ELSE k

\* the rest of a string, after its opening double quote
RECURSIVE ParseString(_, _, _)
ParseString(t, k, acc) ==
    IF k > Len(t) THEN Failed
    ELSE IF t[k] = DQuote THEN [ok |-> TRUE, v |-> acc, k |-> k + 1]
    ELSE IF t[k] = LineBreak THEN Failed
    ELSE IF t[k] = Backslash
    THEN IF k + 1 <= Len(t) /\ t[k + 1] \in {DQuote, Backslash}
         THEN ParseString(t, k + 2, acc \o <<t[k + 1]>>)
         ELSE Failed
    ELSE ParseString(t, k + 1, acc \o <<t[k]>>)

RECURSIVE ParseValue(_, _)
RECURSIVE ParseMembers(_, _, _)

\* a value starting at or after position k
ParseValue(t, k0) ==
    LET k == SkipWs(t, k0)
    IN IF k > Len(t) THEN Failed
       ELSE IF t[k] = DQuote
       THEN LET s == ParseString(t, k + 1, <<>>)
            IN IF s.ok THEN [ok |-> TRUE, v |-> Str(s.v), k |-> s.k] ELSE Failed
       ELSE IF t[k] \in NumberLiterals THEN [ok |-> TRUE, v |-> Num(t[k]), k |-> k + 1]
       ELSE IF t[k] = OpenBrace
       THEN LET k1 == SkipWs(t, k + 1)
            IN IF k1 <= Len(t) /\ t[k1] = CloseBrace
               THEN [ok |-> TRUE, v |-> Obj(<<>>), k |-> k1 + 1]
               ELSE ParseMembers(t, k1, <<>>)
       ELSE Failed

\* the members of an object from position k on: "key": value, then , or }
ParseMembers(t, k0, acc) ==
    LET k == SkipWs(t, k0)
    IN IF k > Len(t) \/ t[k] # DQuote THEN Failed
       ELSE LET key == ParseString(t, k + 1, <<>>)
            IN IF ~key.ok THEN Failed
               ELSE LET kc == SkipWs(t, key.k)
                    IN IF kc > Len(t) \/ t[kc] # Colon THEN Failed
                       ELSE LET val == ParseValue(t, kc + 1)
                            IN IF ~val.ok THEN Failed
                               ELSE LET ke == SkipWs(t, val.k)
                                        acc1 == SetField(acc, key.v, val.v)
                                    IN IF ke > Len(t) THEN Failed
                                       ELSE IF t[ke] = Comma
                                       THEN ParseMembers(t, ke + 1, acc1)
                                       ELSE IF t[ke] = CloseBrace
                                       THEN [ok |-> TRUE, v |-> Obj(acc1), k |-> ke + 1]
                                       ELSE Failed

\* JSON.parse(text): [ok |-> TRUE, v |-> value], or Failed for a SyntaxError
JsonParse(t) ==
    LET r == ParseValue(t, 1)
    IN IF r.ok /\ SkipWs(t, r.k) > Len(t) THEN [ok |-> TRUE, v |-> r.v] ELSE Failed

(***************************************************************************)
(* config.js: createConfig, loadConfig, validateConfig                     *)
(***************************************************************************)
AccountIdPlaceholder == <<"your_cloudflare_account_id">>
ApiTokenPlaceholder == <<"your_api_token_with_browser_rendering_permission">>

AccountIdKey == <<"account_id">>
ApiTokenKey == <<"api_token">>

\* assets/config_template.json as documented: the two credentials as
\* placeholders, then groups of options (the values here are examples)
TemplateValue ==
    Obj(<<[k |-> AccountIdKey, v |-> Str(AccountIdPlaceholder)],
          [k |-> ApiTokenKey, v |-> Str(ApiTokenPlaceholder)],
          [k |-> <<"default_settings">>,
           v |-> Obj(<<[k |-> <<"viewport">>,
                        v |-> Obj(<<[k |-> <<"width">>, v |-> Num("1280")]>>)],
                       [k |-> <<"goto_options">>,
                        v |-> Obj(<<[k |-> <<"timeout">>, v |-> Num("30000")]>>)]>>)],
          [k |-> <<"ai_extraction">>,
           v |-> Obj(<<[k |-> <<"default_prompt">>,
                        v |-> Str(<<"Extract the ", DQuote, "main", DQuote,
                                    " content", Comma, " as JSON">>)]>>)]>>)

\* the templates createConfig is run against: the documented one, and one
\* with no field at all
TemplateValues == {TemplateValue, Obj(<<>>)}

\* a file: absent, or present with its text
NoFile == [exists |-> FALSE]
File(text) == [exists |-> TRUE, text |-> text]

\* the arguments createConfig is called with; nothing in it tests them
AccountIds == {<<"acct-1">>, <<"ac", DQuote, "ct", Backslash>>, <<>>, AccountIdPlaceholder}
ApiTokens == {<<"tok-1">>, <<>>, ApiTokenPlaceholder}

\* one argument varies while the other is a usable credential
CreateConfigArgs ==
    {<<a, <<"tok-1">>>> : a \in AccountIds} \cup {<<<<"acct-1">>, t>> : t \in ApiTokens}

\* !value, for a field that may be absent: absent or the empty string
Falsy(members, key) == ~HasField(members, key) \/ GetField(members, key) = Str(<<>>)

\* config.key === 'placeholder'
IsLiteral(members, key, text) == HasField(members, key) /\ GetField(members, key) = Str(text)

\* the members of a parsed value; a string or a number has no properties
MembersOf(v) == IF IsObj(v) THEN v.obj ELSE <<>>

\* validateConfig(config)
ValidateConfig(v) ==
    IF Falsy(MembersOf(v), AccountIdKey) \/ Falsy(MembersOf(v), ApiTokenKey) THEN FALSE
    ELSE IF \/ IsLiteral(MembersOf(v), AccountIdKey, AccountIdPlaceholder)
            \/ IsLiteral(MembersOf(v), ApiTokenKey, ApiTokenPlaceholder)
    THEN FALSE
    ELSE TRUE

LoadConfigEitherPlaceholder(file) ==
    IF ~file.exists THEN [ok |-> FALSE, message |-> <<"Configuration file does not exist.">>]
    ELSE IF ~JsonParse(file.text).ok THEN [ok |-> FALSE, message |-> <<"SyntaxError">>]
    ELSE LET parsed == JsonParse(file.text).v
         IN IF /\ IsLiteral(MembersOf(parsed), AccountIdKey, AccountIdPlaceholder)
               /\ IsLiteral(MembersOf(parsed), ApiTokenKey, ApiTokenPlaceholder)
            THEN [ok |-> FALSE,
                  message |-> <<"Please configure account_id and api_token first">>]
            ELSE [ok |-> TRUE, config |-> parsed]

\* loadConfig() against the configuration file: [ok |-> TRUE, config |-> ...]
\* when it returns, [ok |-> FALSE, message |-> ...] when it throws
LoadConfig(file) ==
    IF ~file.exists
    THEN [ok |-> FALSE, message |-> <<"Configuration file does not exist.">>]
    ELSE IF ~JsonParse(file.text).ok THEN [ok |-> FALSE, message |-> <<"SyntaxError">>]
    ELSE LET parsed == JsonParse(file.text).v
         IN IF Falsy(MembersOf(parsed), AccountIdKey) \/ Falsy(MembersOf(parsed), ApiTokenKey)
            THEN [ok |-> FALSE,
                  message |-> <<"Configuration file missing required fields: ",
                                "account_id or api_token">>]
            ELSE IF \/ IsLiteral(MembersOf(parsed), AccountIdKey, AccountIdPlaceholder)
                    \/ IsLiteral(MembersOf(parsed), ApiTokenKey, ApiTokenPlaceholder)
            THEN [ok |-> FALSE,
                  message |-> <<"Please configure account_id and api_token first">>]
            ELSE [ok |-> TRUE, config |-> parsed]

CreateConfigNoStringify(template, accountId, apiToken, writeOk) ==
    [ok |-> TRUE,
     written |-> <<OpenBrace, DQuote>> \o AccountIdKey \o <<DQuote, Colon, DQuote>>
                 \o accountId \o <<DQuote, Comma, DQuote>> \o ApiTokenKey
                 \o <<DQuote, Colon, DQuote>> \o apiToken \o <<DQuote, CloseBrace>>,
     config |-> Obj(<<>>)]

\* createConfig(accountId, apiToken) against the template file; writeOk tells
\* whether writeFile succeeds. written is the text put in the configuration file.
CreateConfig(template, accountId, apiToken, writeOk) ==
    IF ~template.exists
    THEN [ok |-> FALSE, message |-> <<"Failed to create configuration file: ", "ENOENT">>]
    ELSE IF ~JsonParse(template.text).ok \/ ~IsObj(JsonParse(template.text).v)
    THEN [ok |-> FALSE, message |-> <<"Failed to create configuration file: ", "SyntaxError">>]
    ELSE LET t1 == SetField(JsonParse(template.text).v.obj, AccountIdKey, Str(accountId))
             t2 == SetField(t1, ApiTokenKey, Str(apiToken))
         IN IF writeOk
            THEN [ok |-> TRUE, written |-> Stringify(Obj(t2)), config |-> Obj(t2)]
            ELSE [ok |-> FALSE,
                  message |-> <<"Failed to create configuration file: ", "ENOSPC">>]

InConfig == api = "config"

ConfigUnchanged ==
    UNCHANGED <<api, urls, options, config, maxWorkers, pc, i, results, artifact,
                inFlight, calls, events, thrown, retry, gd, item, writes, clock,
                signal, je, thisResults, other>>

\* await createConfig(accountId, apiToken)
CreateConfigCall ==
    /\ InConfig /\ cf.n < MaxConfigCalls
    /\ \E args \in CreateConfigArgs, writeOk \in BOOLEAN :
         LET r == CreateConfig(cf.template, args[1], args[2], writeOk)
         IN cf' = [cf EXCEPT !.config = IF r.ok THEN File(r.written) ELSE @,
                             !.created = <<[accountId |-> args[1], apiToken |-> args[2],
                                            result |-> r]>>,
                             !.loaded = <<>>,
                             !.n = @ + 1]
    /\ ConfigUnchanged

\* await loadConfig()
LoadConfigCall ==
    /\ InConfig /\ cf.n < MaxConfigCalls
    /\ cf' = [cf EXCEPT !.loaded = <<LoadConfig(cf.config)>>, !.n = @ + 1]
    /\ ConfigUnchanged

(***************************************************************************)
(* CloudflareBrowserRenderingClient.jsonExtract                            *)
(***************************************************************************)
\* options of jsonExtract: each field may be absent; a prompt may be ''
JsonExtractOptions ==
    {p @@ f @@ w : p \in {<<>>, [prompt |-> ""], [prompt |-> "Extract the title"]},
                   f \in {<<>>, [responseFormat |-> "schema"]},
                   w \in {<<>>, [waitForSelector |-> "main"], [timeout |-> 5000]}}

\* options.field is truthy: given, and not the empty string
Truthy(opts, f) == f \in DOMAIN opts /\ opts[f] # ""

\* const data = { url, gotoOptions: { timeout: options.timeout || 30000 } },
\* then prompt, response_format and waitForSelector where options has them
JsonExtractData(url, opts) ==
    [url |-> url,
     gotoOptions |-> [timeout |-> IF "timeout" \in DOMAIN opts THEN opts.timeout ELSE 30000]]
    @@ (IF Truthy(opts, "prompt") THEN [prompt |-> opts.prompt] ELSE <<>>)
    @@ (IF Truthy(opts, "responseFormat")
        THEN [response_format |-> opts.responseFormat] ELSE <<>>)
    @@ (IF Truthy(opts, "waitForSelector")
        THEN [waitForSelector |-> opts.waitForSelector] ELSE <<>>)

InJe == api = "jsonExtract"

JeUnchanged ==
    UNCHANGED <<api, urls, options, config, maxWorkers, i, results, artifact,
                inFlight, calls, events, retry, gd, item, writes, clock, signal, cf,
                thisResults, other>>

JsonExtractCallAlwaysSends ==
    /\ InJe /\ pc = "call"
    /\ je' = [je EXCEPT !.requests =
                  Append(@, [endpoint |-> "json", data |-> JsonExtractData(je.url, je.options)])]
    /\ pc' = "request"
    /\ thrown' = thrown
    /\ JeUnchanged

\* jsonExtract(url, options) up to its await of _makeRequest('json', data)
JsonExtractCall ==
    /\ InJe /\ pc = "call"
    /\ IF ~Truthy(je.options, "prompt") /\ ~Truthy(je.options, "responseFormat")
       THEN /\ pc' = "thrown"
            /\ thrown' = Append(thrown,
                   [at |-> "jsonExtract",
                    message |-> <<"Must provide either prompt or responseFormat parameter">>])
            /\ je' = je
       ELSE /\ je' = [je EXCEPT !.requests =
                         Append(@, [endpoint |-> "json",
                                    data |-> JsonExtractData(je.url, je.options)])]
            /\ pc' = "request"
            /\ thrown' = thrown
    /\ JeUnchanged

\* the service answers; return result.data, or the rejection of _makeRequest
JsonExtractRespond ==
    /\ InJe /\ pc = "request"
    /\ \E resp \in Responses :
         LET r == MakeRequest("json", resp)
         IN IF r.ok
            THEN /\ pc' = "returned"
                 /\ thrown' = thrown
            ELSE /\ pc' = "thrown"
                 /\ thrown' = Append(thrown, [at |-> "jsonExtract", message |-> r.message])
    /\ je' = je
    /\ JeUnchanged

(***************************************************************************)
(* Specification                                                           *)
(***************************************************************************)
NoRetry == [args |-> [endpoint |-> "content"], attempt |-> 0, hist |-> <<>>,
            delays |-> <<>>, lastError |-> <<>>]

NoGd == [args |-> [attempt |-> 0], random |-> 0, result |-> <<>>]

NoSignal == [raised |-> FALSE, started |-> 0, completed |-> 0]

\* no second call
NoOther == [id |-> 0]

NoItem == [filename |-> <<>>, filepath |-> <<>>, timestamp |-> GetTimestamp(0)]

NoCf == [config |-> NoFile, template |-> NoFile, created |-> <<>>, loaded |-> <<>>, n |-> 0]

\* what the configuration file may hold before the first call
CredentialValues(placeholder, good) ==
    {<<>>, <<Str(<<>>)>>, <<Str(placeholder)>>, <<Str(good)>>, <<Num("1280")>>}

\* one credential varies while the other is usable, or both are placeholders
\* (the template copied as it is)
CredentialPairs ==
    {<<a, <<Str(<<"tok-0">>)>>>> : a \in CredentialValues(AccountIdPlaceholder, <<"acct-0">>)}
    \cup {<<<<Str(<<"acct-0">>)>>, t>> : t \in CredentialValues(ApiTokenPlaceholder, <<"tok-0">>)}
    \cup {<<<<Str(AccountIdPlaceholder)>>, <<Str(ApiTokenPlaceholder)>>>>}

ConfigObjects ==
    {Obj((IF c[1] = <<>> THEN <<>> ELSE <<[k |-> AccountIdKey, v |-> c[1][1]]>>)
         \o (IF c[2] = <<>> THEN <<>> ELSE <<[k |-> ApiTokenKey, v |-> c[2][1]]>>)
         \o <<[k |-> <<"default_settings">>, v |-> Obj(<<>>)]>>) : c \in CredentialPairs}

ConfigFiles ==
    {NoFile, File(<<OpenBrace, DQuote, "account_id">>), File(<<DQuote, "acct-0", DQuote>>)}
    \cup {File(Stringify(o)) : o \in ConfigObjects}


NoJe == [url |-> "https://a.example", options |-> <<>>, requests |-> <<>>]

NoBatch ==
    /\ item = NoItem
    /\ writes = <<>>
    /\ clock = 0
    /\ signal = NoSignal
    /\ thisResults = <<>>
    /\ other = NoOther
    /\ urls = <<>>
    /\ options = [maxAttempts |-> 1]
    /\ config = [accountId |-> "acct"]
    /\ maxWorkers = Constructor(config)
    /\ i = 0
    /\ results = <<>>
    /\ artifact = <<>>
    /\ inFlight = 0
    /\ calls = <<>>
    /\ events = <<>>
    /\ thrown = <<>>

\* The calls made: every method with every options under the plain
\* configuration, and every configuration (which no batch method reads) under
\* one method with plain options.
BatchInputs ==
    {<<a, o, [accountId |-> "acct"]>> : a \in BatchApis, o \in OptionsSet}
    \cup {<<"batchScreenshots", [maxAttempts |-> 1], c>> : c \in ConfigSet}

InitBatch ==
    /\ \E inp \in BatchInputs : api = inp[1] /\ options = inp[2] /\ config = inp[3]
    /\ urls \in UrlLists
    /\ maxWorkers = Constructor(config)
    /\ pc = "ensureDir"
    /\ i = 0
    /\ results = <<>>
    /\ artifact = <<>>
    /\ inFlight = 0
    /\ calls = <<>>
    /\ events = <<>>
    /\ thrown = <<>>
    /\ item = NoItem
    /\ writes = <<>>
    /\ clock = 0
    /\ signal = NoSignal
    /\ thisResults = <<>>
    /\ other = NoOther
    /\ retry = NoRetry
    /\ gd = NoGd
    /\ cf = NoCf
    /\ je = NoJe

RetryArgsSet ==
    {[endpoint |-> e] : e \in {"screenshot", "content"}}
    \cup {[endpoint |-> e, maxRetries |-> m] : e \in {"screenshot", "content"}, m \in 0..MaxRetries}

InitRetry ==
    /\ api = "requestWithRetry"
    /\ NoBatch
    /\ pc = "loop"
    /\ retry \in {[NoRetry EXCEPT !.args = a] : a \in RetryArgsSet}
    /\ gd = NoGd
    /\ cf = NoCf
    /\ je = NoJe

BaseDelayValues == {0, 10, 1000}

GdArgsSet ==
    {[attempt |-> a] : a \in 0..MaxAttemptNo}
    \cup {[attempt |-> a, baseDelay |-> b] : a \in 0..MaxAttemptNo, b \in BaseDelayValues}

InitGd ==
    /\ api = "getRetryDelay"
    /\ NoBatch
    /\ pc = "call"
    /\ retry = NoRetry
    /\ gd \in {[NoGd EXCEPT !.args = a] : a \in GdArgsSet}
    /\ cf = NoCf
    /\ je = NoJe

InitConfig ==
    /\ api = "config"
    /\ NoBatch
    /\ pc = "idle"
    /\ retry = NoRetry
    /\ gd = NoGd
    /\ je = NoJe
    /\ cf \in {[NoCf EXCEPT !.config = f, !.template = File(Stringify(t))] :
                  f \in ConfigFiles, t \in TemplateValues}

InitJe ==
    /\ api = "jsonExtract"
    /\ NoBatch
    /\ pc = "call"
    /\ retry = NoRetry
    /\ gd = NoGd
    /\ cf = NoCf
    /\ je \in {[NoJe EXCEPT !.url = u, !.options = o] : u \in Urls, o \in JsonExtractOptions}

Init == InitBatch \/ InitRetry \/ InitGd \/ InitConfig \/ InitJe

Next ==
    \/ EnsureDir
    \/ BeginItem
    \/ Respond
    \/ WriteArtifact
    \/ DelayElapsed
    \/ EndLoop
    \/ WriteJson
    \/ WriteCsv
    \/ Tick
    \/ GetRetryDelayCall
    \/ RetryAttempt
    \/ RetrySettle
    \/ RetrySleepElapsed
    \/ RetryExhausted
    \/ CreateConfigCall
    \/ LoadConfigCall
    \/ JsonExtractCall
    \/ JsonExtractRespond

Spec == Init /\ [][Next]_vars

\* Batch calls during which the caller may raise a cancellation signal.
InitCancel ==
    /\ InitBatch
    /\ options = [maxAttempts |-> 1, delay |-> 2000]

NextCancel ==
    \/ EnsureDir
    \/ BeginItem
    \/ Respond
    \/ WriteArtifact
    \/ DelayElapsed
    \/ EndLoop
    \/ WriteJson
    \/ WriteCsv
    \/ Tick
    \/ Cancel

SpecCancel == InitCancel /\ [][NextCancel]_vars

\* Two batch calls made on one BatchProcessor without awaiting the first:
\* each has its own list of two URLs, and they interleave at every await.
PairUrlLists == {u \in UrlLists : Len(u) = 2 /\ u[1] # u[2]}

InitPair ==
    /\ api = "batchScreenshots"
    /\ options = [maxAttempts |-> 1]
    /\ config = [accountId |-> "acct"]
    /\ urls = <<"https://a.example", "https://b.example/x,y">>
    /\ maxWorkers = Constructor(config)
    /\ pc = "ensureDir"
    /\ i = 0
    /\ results = <<>>
    /\ artifact = <<>>
    /\ inFlight = 0
    /\ calls = <<>>
    /\ events = <<>>
    /\ thrown = <<>>
    /\ item = NoItem
    /\ writes = <<>>
    /\ clock = 0
    /\ signal = NoSignal
    /\ thisResults = <<>>
    /\ \E u \in PairUrlLists :
         other = [id |-> 2, urls |-> u, pc |-> "ensureDir", i |-> 0, results |-> <<>>,
                  artifact |-> <<>>, inFlight |-> 0, calls |-> <<>>, events |-> <<>>,
                  thrown |-> <<>>, item |-> NoItem, writes |-> <<>>]
    /\ retry = NoRetry
    /\ gd = NoGd
    /\ cf = NoCf
    /\ je = NoJe

NextPair ==
    \/ EnsureDir
    \/ BeginItem
    \/ Respond
    \/ WriteArtifact
    \/ EndLoop
    \/ WriteJson
    \/ WriteCsv
    \/ Switch

SpecPair == InitPair /\ [][NextPair]_vars

\* Batch calls whose awaits all settle: the directory creation, each client
\* call, each file write and each delay wait eventually completes, and the
\* synchronous steps between two awaits run to the next await. The calls are
\* followed within one timestamp window (the clock does not advance).
LiveInputs ==
    {<<a, [maxAttempts |-> 1, delay |-> 2000], [accountId |-> "acct"]>> :
        a \in {"batchScreenshots", "batchExtractMarkdown"}}
    \cup {<<"batchScreenshots", [maxAttempts |-> 1], [accountId |-> "acct"]>>}

InitLive ==
    /\ InitBatch
    /\ <<api, options, config>> \in LiveInputs

NextLive ==
    \/ EnsureDir
    \/ BeginItem
    \/ Respond
    \/ WriteArtifact
    \/ DelayElapsed
    \/ EndLoop
    \/ WriteJson
    \/ WriteCsv

SpecLive ==
    /\ InitLive /\ [][NextLive]_vars
    /\ WF_vars(EnsureDir) /\ WF_vars(BeginItem) /\ WF_vars(Respond)
    /\ WF_vars(WriteArtifact) /\ WF_vars(DelayElapsed) /\ WF_vars(EndLoop)
    /\ WF_vars(WriteJson) /\ WF_vars(WriteCsv)

(***************************************************************************)
(* Vocabulary of the properties                                            *)
(***************************************************************************)
Returned == InBatch /\ pc = "returned"

\* The error classes of the specification: timeouts, rate limiting and network
\* failures are transient (retriable); authentication failures are permanent.
TransientCodes == {"10030", "10050"}

Retriable(resp) ==
    \/ resp.kind = "network"
    \/ /\ resp.kind = "failure"
       /\ \A k \in 1..Len(resp.errors) : resp.errors[k].code \in TransientCodes

NonRetriable(resp) == resp.kind = "failure" /\ ~Retriable(resp)

\* error.message.includes(piece)
Includes(message, piece) == \E k \in 1..Len(message) : message[k] = piece

\* The client calls the batch made for the url at 0-based position j.
CallsFor(j) == {k \in 1..Len(calls) : calls[k].index = j}

Attempts(j) == Cardinality(CallsFor(j))

\* base * 2^a by a successive doublings
RECURSIVE Doubled(_, _)
Doubled(base, a) == IF a = 0 THEN base ELSE 2 * Doubled(base, a - 1)

(***************************************************************************)
(* C1..C10                                                                 *)
(***************************************************************************)

\* C1: a batch call that returns yields exactly n outcomes in submission
\* order: the outcome at position k is for the k-th input URL; while the call
\* runs, the outcomes recorded so far are those of a prefix of the URL list.
C1_OneOutcomePerUrlInOrder ==
    InBatch =>
        /\ Len(results) <= Len(urls)
        /\ \A k \in 1..Len(results) : results[k].url = urls[k]
        /\ (pc = "returned" => Len(results) = Len(urls))

C1_Witness ==
    /\ Returned /\ Len(urls) = 2 /\ urls[1] # urls[2]
    /\ results[1].status = "error" /\ results[2].status = "success"

\* C2: a rejection of the client call for one URL never throws out of the
\* batch call (only _ensureDir and the two summary writes do): it is recorded
\* as an outcome with status error carrying the rejection's message, for that
\* URL, and once the loop is over every URL of the list has had its call.
C2_FailureIsolated ==
    InBatch =>
        /\ \A k \in 1..Len(calls) :
              ~calls[k].result.ok =>
                  LET pos == calls[k].index + 1 IN
                  /\ Len(results) >= pos
                  /\ results[pos].status = "error"
                  /\ results[pos].url = urls[pos]
                  /\ results[pos].error = calls[k].result.message
        /\ \A t \in 1..Len(thrown) : thrown[t].at \in {"ensureDir", "writeJson", "writeCsv"}
        /\ (pc \in {"writeJson", "writeCsv", "returned"}
               => \A j \in 0..(Len(urls) - 1) : Attempts(j) >= 1)

C2_Witness ==
    /\ Returned /\ Len(calls) = 2
    /\ ~calls[1].result.ok /\ calls[2].result.ok
    /\ results[1].status = "error" /\ results[2].status = "success"

\* C3: every outcome is the item's true outcome: status success only if the
\* remote service rendered the page, and whenever the service reported a
\* failure the outcome has status error and carries the failure's error codes.
C3_ReportReflectsTrueOutcome ==
    InBatch =>
        \A k \in 1..Len(results) :
            \A c \in CallsFor(k - 1) :
                /\ (results[k].status = "success" => calls[c].resp.kind = "rendered")
                /\ (calls[c].resp.kind = "failure" =>
                        /\ results[k].status = "error"
                        /\ \A e \in 1..Len(calls[c].resp.errors) :
                              Includes(results[k].error, calls[c].resp.errors[e].code))

\* C4: when the service answers a request with a failure response (success
\* false with an errors list), the client method rejects with an error whose
\* message contains each API error code, on every endpoint.
C4_FailureResponseRejectsWithCode ==
    \A k \in 1..Len(calls) :
        calls[k].resp.kind = "failure" =>
            /\ ~calls[k].result.ok
            /\ \A e \in 1..Len(calls[k].resp.errors) :
                  Includes(calls[k].result.message, calls[k].resp.errors[e].code)

\* C5: with a positive options.delay, every request but the first is issued
\* right after a wait, whether the item before it succeeded or failed, and a
\* returned batch of n items has performed exactly n-1 waits.
C5_DelayBetweenAllRequests ==
    (InBatch /\ DelayConfigured(options)) =>
        /\ \A k \in 2..Len(events) : events[k] = "request" => events[k - 1] = "wait"
        /\ (pc = "returned" /\ Len(urls) >= 1 =>
                Cardinality({k \in 1..Len(events) : events[k] = "wait"}) = Len(urls) - 1)

\* C6: with maxWorkers = k >= 1 configured, at no point of a batch call are
\* more than k client calls in flight.
C6_ConcurrencyBound ==
    (InBatch /\ "maxWorkers" \in DOMAIN config /\ config.maxWorkers >= 1) =>
        /\ maxWorkers = config.maxWorkers
        /\ inFlight <= maxWorkers

C6_Witness ==
    /\ InBatch /\ "maxWorkers" \in DOMAIN config /\ config.maxWorkers = 1
    /\ pc = "request" /\ i = 1 /\ inFlight = 1

\* C7 (as stated): in a batch call, an operation that fails every time with a
\* retriable error is attempted exactly maxAttempts times before its failure
\* outcome is recorded.
C7_AttemptedMaxAttemptsTimes ==
    InBatch =>
        \A k \in 1..Len(results) :
            (/\ results[k].status = "error"
             /\ \A c \in CallsFor(k - 1) :
                   ~calls[c].result.ok /\ Retriable(calls[c].resp))
            => Attempts(k - 1) = options.maxAttempts

\* C7 (amended): the batch calls do not retry: an operation that fails with a
\* retriable error is attempted exactly once before its failure outcome is
\* recorded, whatever maxAttempts the caller passes. The requestWithRetry
\* wrapper, which the batch calls do not use, attempts an operation that
\* fails every time with a retriable error exactly maxRetries times, never
\* more, before it throws the last error.
C7_RetryBoundAmended ==
    /\ InBatch =>
          \A k \in 1..Len(results) :
              (/\ results[k].status = "error"
               /\ \A c \in CallsFor(k - 1) :
                     ~calls[c].result.ok /\ Retriable(calls[c].resp))
              => Attempts(k - 1) = 1
    /\ InRetry =>
          ((\A h \in 1..Len(retry.hist) :
                ~retry.hist[h].result.ok /\ Retriable(retry.hist[h].resp))
           => /\ Len(retry.hist) <= MaxRetriesOf(retry.args)
              /\ (pc = "thrown" =>
                     /\ Len(retry.hist) = MaxRetriesOf(retry.args)
                     /\ (Len(retry.hist) > 0 =>
                            thrown[1].message
                              = <<retry.hist[Len(retry.hist)].result.message>>)))

C7_Witness ==
    /\ Returned /\ options.maxAttempts = 3 /\ Len(results) >= 1
    /\ results[1].status = "error"
    /\ Attempts(0) = 1
    /\ \A c \in CallsFor(0) : ~calls[c].result.ok /\ Retriable(calls[c].resp)

\* C8 (as stated): an operation that fails with a non-retriable error is
\* attempted exactly once, regardless of maxAttempts / maxRetries: no further
\* attempt follows a non-retriable failure.
C8_NonRetriableAttemptedOnce ==
    /\ InBatch =>
          \A k \in 1..Len(calls) :
              (~calls[k].result.ok /\ NonRetriable(calls[k].resp))
              => Attempts(calls[k].index) = 1
    /\ InRetry =>
          \A h \in 1..Len(retry.hist) :
              (~retry.hist[h].result.ok /\ NonRetriable(retry.hist[h].resp))
              => (h = Len(retry.hist) /\ pc \notin {"call", "sleep"})

\* C8 (amended): in the batch calls an operation that fails with a
\* non-retriable error is attempted exactly once regardless of maxAttempts.
\* The requestWithRetry wrapper does not classify errors: an operation that
\* fails every time with a non-retriable error is attempted maxRetries times,
\* like any other failing operation, before the last error is thrown.
C8_NonRetriableAmended ==
    /\ InBatch =>
          \A k \in 1..Len(calls) :
              (~calls[k].result.ok /\ NonRetriable(calls[k].resp))
              => Attempts(calls[k].index) = 1
    /\ InRetry =>
          ((\A h \in 1..Len(retry.hist) :
                ~retry.hist[h].result.ok /\ NonRetriable(retry.hist[h].resp))
           => /\ Len(retry.hist) <= MaxRetriesOf(retry.args)
              /\ (pc = "thrown" => Len(retry.hist) = MaxRetriesOf(retry.args)))

C8_Witness ==
    /\ InRetry /\ pc = "thrown" /\ Len(retry.hist) = 3
    /\ \A h \in 1..Len(retry.hist) :
          ~retry.hist[h].result.ok /\ NonRetriable(retry.hist[h].resp)

\* C9: for attempt a >= 0 and base delay b >= 0, getRetryDelay(a, b) lies in
\* [b * 2^a, b * 2^a + 1000); its part without the jitter doubles from attempt
\* a to a + 1; b is 1000 when omitted. The delays requestWithRetry waits are
\* such values for b omitted.
C9_RetryDelayRange ==
    /\ (InGd /\ pc = "returned") =>
          LET a == gd.args.attempt
              b == IF "baseDelay" \in DOMAIN gd.args THEN gd.args.baseDelay ELSE 1000
              jitter == gd.random * 1000
          IN /\ Ms(Doubled(b, a)) <= gd.result[1]
             /\ gd.result[1] < Ms(Doubled(b, a) + 1000)
             /\ GetRetryDelay([gd.args EXCEPT !.attempt = a + 1], gd.random) - jitter
                  = 2 * (gd.result[1] - jitter)
    /\ InRetry =>
          \A k \in 1..Len(retry.delays) :
              /\ Ms(Doubled(1000, retry.delays[k].attempt)) <= retry.delays[k].value
              /\ retry.delays[k].value < Ms(Doubled(1000, retry.delays[k].attempt) + 1000)

C9_Witness ==
    /\ InGd /\ pc = "returned"
    /\ gd.args.attempt = 3 /\ "baseDelay" \notin DOMAIN gd.args
    /\ gd.random = RandDenom - 1
    /\ gd.result[1] > Ms(8000)

\* C10: the reported success count plus the reported failure count equals the
\* number of outcomes: every outcome's status is 'success' or 'error'.
C10_CountsAddUp ==
    InBatch =>
        /\ SuccessCount(results) + FailedCount(results) = Len(results)
        /\ \A k \in 1..Len(results) : results[k].status \in {"success", "error"}

C10_Witness ==
    /\ Returned /\ Len(results) = 2
    /\ SuccessCount(results) = 1 /\ FailedCount(results) = 1


\* the outcome carries an artifact reference and no error
HasArtifactOnly(r) ==
    /\ r.status = "success"
    /\ "filepath" \in DOMAIN r /\ Len(r.filepath) > 0
    /\ "filename" \in DOMAIN r /\ Len(r.filename) > 0
    /\ "error" \notin DOMAIN r

\* the outcome carries an error message and no artifact reference
HasErrorOnly(r) ==
    /\ r.status = "error"
    /\ "error" \in DOMAIN r /\ Len(r.error) > 0
    /\ "filepath" \notin DOMAIN r
    /\ "filename" \notin DOMAIN r

\* C11: every outcome of a batch call carries exactly one of an artifact
\* reference (filepath and filename, no error) and an error message (no
\* filepath, no filename), and an outcome once pushed is never modified: every
\* step leaves the outcomes already collected in place, as they were.
C11_OutcomeShapeAndImmutable ==
    /\ [](\A k \in 1..Len(results) : HasArtifactOnly(results[k]) \/ HasErrorOnly(results[k]))
    /\ [][/\ Len(results') >= Len(results)
          /\ \A k \in 1..Len(results) : results'[k] = results[k]]_vars

C11_Witness ==
    /\ Returned /\ Len(results) = 2
    /\ HasErrorOnly(results[1]) /\ HasArtifactOnly(results[2])


\* A CSV reader (RFC 4180): a comma ends a field and a line break ends a row,
\* except between the double quotes of a quoted field, where two double quotes
\* stand for one. mode is "start" at the beginning of a field, "plain" inside
\* an unquoted field, "quoted" inside a quoted one, "closed" after its end.
RECURSIVE CsvScan(_, _, _, _, _, _)
CsvScan(t, k, mode, field, row, rows) ==
    IF k > Len(t) THEN rows \o <<row \o <<field>>>>
    ELSE IF mode = "quoted"
    THEN IF t[k] # DQuote THEN CsvScan(t, k + 1, "quoted", field \o <<t[k]>>, row, rows)
         ELSE IF k + 1 <= Len(t) /\ t[k + 1] = DQuote
         THEN CsvScan(t, k + 2, "quoted", field \o <<DQuote>>, row, rows)
         ELSE CsvScan(t, k + 1, "closed", field, row, rows)
    ELSE IF t[k] = Comma THEN CsvScan(t, k + 1, "start", <<>>, row \o <<field>>, rows)
    ELSE IF t[k] = LineBreak
    THEN CsvScan(t, k + 1, "start", <<>>, <<>>, rows \o <<row \o <<field>>>>)
    ELSE IF t[k] = DQuote /\ mode = "start"
    THEN CsvScan(t, k + 1, "quoted", field, row, rows)
    ELSE CsvScan(t, k + 1, "plain", field \o <<t[k]>>, row, rows)

ParseCsv(t) == CsvScan(t, 1, "start", <<>>, <<>>, <<>>)

\* the value of column col in the row of outcome r; empty where r lacks it
CsvField(r, col) ==
    CASE col = "URL" -> UrlText(r.url)
      [] col = "Status" -> <<r.status>>
      [] col = "FilePath" -> TextOr(r, "filepath")
      [] col = "FileName" -> TextOr(r, "filename")
      [] col = "Timestamp" -> AtomOr(r, "timestamp")
      [] col = "SizeBytes" -> AtomOr(r, "sizeBytes")
      [] col = "ContentType" -> AtomOr(r, "contentType")
      [] col = "SizeChars" -> AtomOr(r, "sizeChars")
      [] OTHER -> TextOr(r, "error")

\* the rows a reader should get: the header, then one row per outcome
CsvExpected(a, rs) ==
    LET cols == CsvColumns(a)
    IN <<[c \in 1..Len(cols) |-> <<cols[c]>>]>>
       \o [k \in 1..Len(rs) |-> [c \in 1..Len(cols) |-> CsvField(rs[k], cols[c])]]

\* C12 (as stated): the CSV summary a batch call writes reads back as the
\* header followed by exactly one row per outcome, in order, each row holding
\* the outcome's URL, status, file path, file name, timestamp and error (Error
\* empty for a success, FilePath and FileName empty for a failure), whatever
\* characters the URL and the error text contain.
C12_CsvOneRowPerOutcome ==
    \A w \in 1..Len(writes) :
        writes[w].path = CsvFile(api) =>
            ParseCsv(writes[w].data) = CsvExpected(api, results)


\* the _writeFile calls made for the summary file at path p
SummaryWrites(p) == {w \in 1..Len(writes) : writes[w].path = p}

\* the text written (or attempted) by call w is the text of the outcomes as
\* they are now
WroteCurrentOutcomes(w) ==
    \/ writes[w].path = ResultsFile(api) /\ writes[w].data = JsonContent(results)
    \/ writes[w].path = CsvFile(api) /\ writes[w].data = CsvContent(api, results)

\* C14: a failure while writing <type>_results.json or <type>_results.csv is
\* not retried (the file is written at most once), it leaves the batch call
\* with the error thrown out of it, nothing is written after it, and the
\* outcomes collected are what they were when the write was attempted.
C14_SummaryWriteFailureFatal ==
    InBatch =>
        \A w \in 1..Len(writes) :
            (writes[w].path \in {ResultsFile(api), CsvFile(api)} /\ ~writes[w].ok) =>
                /\ pc = "thrown"
                /\ Len(thrown) = 1
                /\ w = Len(writes)
                /\ Cardinality(SummaryWrites(writes[w].path)) = 1
                /\ WroteCurrentOutcomes(w)
                /\ Len(results) = Len(urls)

C14_Witness ==
    /\ InBatch /\ pc = "thrown" /\ Len(results) = 2
    /\ Len(writes) > 0
    /\ writes[Len(writes)].path = ResultsFile(api)
    /\ ~writes[Len(writes)].ok


\* the caller configured maxWorkers below 1
MaxWorkersBelowOne == "maxWorkers" \in DOMAIN config /\ config.maxWorkers < 1

\* C15 (as stated): a batch processor configured with maxWorkers < 1 fails
\* fast: a configuration error is thrown and no URL is processed.
C15_MaxWorkersBelowOneFailsFast ==
    (InBatch /\ MaxWorkersBelowOne) =>
        /\ pc = "thrown"
        /\ Len(thrown) = 1 /\ thrown[1].at = "constructor"
        /\ calls = <<>>

\* C15 (amended): maxWorkers is not validated. The constructor accepts a
\* value below 1 without an error (0 becomes the default 3, a negative value
\* is stored as it is), no error about the configuration is ever thrown, and
\* the batch call processes every URL as with any other value.
C15_MaxWorkersNotValidated ==
    (InBatch /\ MaxWorkersBelowOne) =>
        /\ maxWorkers = (IF config.maxWorkers = 0 THEN 3 ELSE config.maxWorkers)
        /\ \A t \in 1..Len(thrown) : thrown[t].at \in {"ensureDir", "writeJson", "writeCsv"}
        /\ (Returned => Len(calls) = Len(urls) /\ Len(results) = Len(urls))

C15_Witness ==
    /\ InBatch /\ MaxWorkersBelowOne /\ config.maxWorkers = -1
    /\ Returned /\ Len(calls) = 2 /\ maxWorkers = -1


\* the client calls begun so far
Started == Cardinality({k \in 1..Len(events) : events[k] = "request"})

\* C16 (as stated): once a cancellation signal is raised after m of n items
\* have completed, no further item is started, and the call returns a report
\* with between m and n outcomes, never more than n, whose cancelled is true.
C16_CancelStopsNewItems ==
    (InBatch /\ signal.raised) =>
        /\ Started = signal.started
        /\ Len(results) <= Len(urls)
        /\ (Returned =>
              /\ signal.completed <= Len(results)
              /\ "cancelled" \in DOMAIN Report(results)
              /\ Report(results).cancelled = TRUE)

\* C16 (amended): the batch calls observe no cancellation signal. After one
\* is raised with m of n items completed the call goes on as without it: it
\* never holds more than n outcomes, and when it returns every one of the n
\* items was started, the list has exactly n outcomes (m <= n), and the value
\* returned is the outcome list alone, with no cancelled flag.
C16_CancelNotObserved ==
    (InBatch /\ signal.raised) =>
        /\ Len(results) <= Len(urls)
        /\ signal.completed <= Len(results)
        /\ (Returned =>
              /\ Started = Len(urls)
              /\ Len(results) = Len(urls)
              /\ DOMAIN Report(results) = {"outcomes"})

C16_Witness ==
    /\ Returned /\ signal.raised
    /\ signal.completed = 1 /\ signal.started = 1
    /\ Len(urls) = 2 /\ Len(results) = 2


\* @param {number} [options.delay=1000] (batchScreenshots, batchPdfs) and
\* @param {number} [options.delay=500] (batchExtractContent)
DocumentedDelay(a) == IF a \in {"batchScreenshots", "batchPdfs"} THEN 1000 ELSE 500

\* the milliseconds spent in _delay so far: each wait is _delay(options.delay)
TotalWaited ==
    Cardinality({k \in 1..Len(events) : events[k] = "wait"})
        * (IF "delay" \in DOMAIN options THEN options.delay ELSE 0)

AllSucceeded == \A k \in 1..Len(results) : results[k].status = "success"

\* C17 (as stated): a batch call whose options omit delay applies the
\* documented default: between the items of a run in which every item
\* succeeds, batchScreenshots and batchPdfs wait 1000 ms and
\* batchExtractContent waits 500 ms, so n items take n - 1 such waits.
C17_DefaultDelayApplies ==
    (Returned /\ "delay" \notin DOMAIN options /\ AllSucceeded /\ Len(urls) >= 1) =>
        TotalWaited = (Len(urls) - 1) * DocumentedDelay(api)


\* a credential a caller may use: not empty and not the template's placeholder
UsableCredential(text, placeholder) == text # <<>> /\ text # placeholder

\* objects a and b have the same keys other than the two credentials, with
\* the same values
SameOtherFields(a, b) ==
    /\ {a[m].k : m \in 1..Len(a)} \ {AccountIdKey, ApiTokenKey}
         = {b[m].k : m \in 1..Len(b)} \ {AccountIdKey, ApiTokenKey}
    /\ \A m \in 1..Len(a) :
          a[m].k \notin {AccountIdKey, ApiTokenKey} => GetField(b, a[m].k) = a[m].v

\* the last createConfig call succeeded with usable credentials and
\* loadConfig was called after it
LoadedAfterCreate ==
    /\ InConfig /\ Len(cf.created) = 1 /\ Len(cf.loaded) = 1
    /\ cf.created[1].result.ok
    /\ UsableCredential(cf.created[1].accountId, AccountIdPlaceholder)
    /\ UsableCredential(cf.created[1].apiToken, ApiTokenPlaceholder)

\* C18: after createConfig(a, t) has succeeded with a and t not empty and not
\* the placeholders, a following loadConfig returns a configuration whose
\* account_id is a, whose api_token is t, and whose other fields are those of
\* the template, each with the template's value.
C18_ConfigRoundTrip ==
    LoadedAfterCreate =>
        /\ cf.loaded[1].ok
        /\ IsObj(cf.loaded[1].config)
        /\ IsLiteral(cf.loaded[1].config.obj, AccountIdKey, cf.created[1].accountId)
        /\ IsLiteral(cf.loaded[1].config.obj, ApiTokenKey, cf.created[1].apiToken)
        /\ SameOtherFields(cf.loaded[1].config.obj, JsonParse(cf.template.text).v.obj)

C18_Witness ==
    /\ LoadedAfterCreate
    /\ cf.template = File(Stringify(TemplateValue))
    /\ cf.created[1].accountId = <<"ac", DQuote, "ct", Backslash>>
    /\ cf.loaded[1].ok

\* the field is there, is not the empty string and is not the placeholder
CredentialSet(v, key, placeholder) ==
    /\ IsObj(v) /\ HasField(v.obj, key)
    /\ GetField(v.obj, key) # Str(<<>>)
    /\ GetField(v.obj, key) # Str(placeholder)

\* C19: loadConfig never returns a configuration whose account_id or
\* api_token is missing, empty or a placeholder: it throws in those cases (and
\* when the file is absent or is not JSON), and it returns the parsed file
\* exactly when validateConfig holds of it.
C19_LoadConfigValidates ==
    (InConfig /\ Len(cf.loaded) = 1) =>
        /\ cf.loaded[1].ok =>
              /\ CredentialSet(cf.loaded[1].config, AccountIdKey, AccountIdPlaceholder)
              /\ CredentialSet(cf.loaded[1].config, ApiTokenKey, ApiTokenPlaceholder)
              /\ cf.loaded[1].config = JsonParse(cf.config.text).v
        /\ cf.loaded[1].ok <=>
              /\ cf.config.exists
              /\ JsonParse(cf.config.text).ok
              /\ ValidateConfig(JsonParse(cf.config.text).v)

C19_Witness ==
    /\ InConfig /\ Len(cf.loaded) = 1 /\ ~cf.loaded[1].ok
    /\ Len(cf.created) = 0
    /\ cf.config.exists /\ JsonParse(cf.config.text).ok
    /\ IsLiteral(MembersOf(JsonParse(cf.config.text).v), ApiTokenKey, ApiTokenPlaceholder)
    /\ CredentialSet(JsonParse(cf.config.text).v, AccountIdKey, AccountIdPlaceholder)


\* the caller gave a prompt or a responseFormat (an empty prompt is none)
GaveInstruction ==
    \/ "prompt" \in DOMAIN je.options /\ je.options.prompt # ""
    \/ "responseFormat" \in DOMAIN je.options

\* C20: jsonExtract called with neither a prompt nor a responseFormat rejects
\* and sends no request; called with at least one of them it sends exactly
\* one request, to the json endpoint, for the URL it was given.
C20_JsonExtractNeedsInstruction ==
    InJe =>
        /\ (pc = "call" => je.requests = <<>>)
        /\ (pc # "call" /\ ~GaveInstruction) =>
              /\ pc = "thrown"
              /\ je.requests = <<>>
        /\ (pc # "call" /\ GaveInstruction) =>
              /\ Len(je.requests) = 1
              /\ je.requests[1].endpoint = "json"
              /\ je.requests[1].data.url = je.url

C20_Witness ==
    /\ InJe /\ pc = "returned"
    /\ "prompt" \notin DOMAIN je.options
    /\ "responseFormat" \in DOMAIN je.options
    /\ Len(je.requests) = 1


\* C21: within one batch call the client calls are issued one at a time and
\* in input order, each URL exactly once: the k-th call made is the call for
\* the k-th URL, at most one call is in flight, and the call for a URL is
\* started only when every earlier URL has its outcome recorded. This is so
\* for every value of maxWorkers (absent, -1, 0, 1, 2): the property does not
\* mention it.
C21_OneAtATimeInOrder ==
    InBatch =>
        /\ inFlight <= 1
        /\ Len(calls) <= Len(urls)
        /\ \A k \in 1..Len(calls) : calls[k].index = k - 1
        /\ Started = Len(calls) + inFlight
        /\ Started <= Len(results) + 1
        /\ (pc = "request" => inFlight = 1 /\ Len(results) = i /\ Started = i + 1)
        /\ (Returned => Started = Len(urls))

C21_Witness ==
    /\ InBatch /\ "maxWorkers" \in DOMAIN config /\ config.maxWorkers = 2
    /\ pc = "request" /\ i = 1 /\ Len(results) = 1 /\ Len(urls) = 2


\* C22 (as stated): no artifact is silently overwritten: within one batch
\* call any two distinct success outcomes have distinct filepaths, also when
\* their URLs share a hostname and are processed close together in time.
C22_DistinctFilepaths ==
    InBatch =>
        \A j, k \in 1..Len(results) :
            (j < k /\ results[j].status = "success" /\ results[k].status = "success")
                => results[j].filepath # results[k].filepath


\* the _writeFile calls made for the artifact of item j (0-based, as i)
ArtifactWrites(j) ==
    {w \in 1..Len(writes) : "index" \in DOMAIN writes[w] /\ writes[w].index = j}

IsSummaryWrite(w) == writes[w].path \in {ResultsFile(api), CsvFile(api)}

\* C24: the summary is built once, at the end of the run. The results JSON
\* file and the results CSV file are written only when every input URL has
\* its outcome, each at most once and after every artifact write; the CSV
\* write comes only after the JSON write has succeeded; and from the moment
\* the first summary write begins the outcome list stays as it is: what
\* each summary write was given is the text of the list as it is now.
C24_SummaryOnceAtEnd ==
    InBatch =>
        /\ (pc \in {"writeJson", "writeCsv"} => i = Len(urls) /\ Len(results) = Len(urls))
        /\ (pc = "writeJson" => \A w \in 1..Len(writes) : ~IsSummaryWrite(w))
        /\ (pc = "writeCsv" => SummaryWrites(CsvFile(api)) = {})
        /\ \A w \in 1..Len(writes) :
              IsSummaryWrite(w) =>
                  /\ Len(results) = Len(urls)
                  /\ WroteCurrentOutcomes(w)
                  /\ Cardinality(SummaryWrites(writes[w].path)) = 1
                  /\ \A v \in (w + 1)..Len(writes) : IsSummaryWrite(v)
                  /\ writes[w].path = CsvFile(api) =>
                        /\ w > 1
                        /\ writes[w - 1].path = ResultsFile(api)
                        /\ writes[w - 1].ok

C24_Witness ==
    /\ Returned /\ Len(urls) = 2 /\ Len(writes) = 3
    /\ writes[1].ok /\ ~IsSummaryWrite(1)
    /\ writes[2].path = ResultsFile(api)
    /\ writes[3].path = CsvFile(api)


\* C25: every batch call over a finite URL list eventually finishes, by
\* returning its results or by throwing the failure of the directory creation
\* or of a summary write, when each remote call, file write and delay wait
\* eventually completes. The loop index only moves forward by one, never
\* past the length of the list: at most as many client calls are started and
\* as many outcomes recorded as there are URLs, one call per index.
C25_Terminates ==
    /\ <>(pc \in {"returned", "thrown"})
    /\ [](pc = "thrown" =>
            /\ Len(thrown) = 1
            /\ thrown[1].at \in {"ensureDir", "writeJson", "writeCsv"})
    /\ [](/\ i <= Len(urls)
          /\ Started <= Len(urls)
          /\ Len(results) <= Len(urls)
          /\ \A j, k \in 1..Len(calls) : calls[j].index = calls[k].index => j = k)
    /\ [][i' \in {i, i + 1}]_vars

C25_Witness ==
    /\ InBatch /\ pc = "returned"
    /\ Len(urls) = 2 /\ DelayConfigured(options)
    /\ Len(calls) = 2 /\ events = <<"request", "wait", "request">>


\* The two calls of a pair, each with the locals it has now.
BothCalls == {Suspended(3 - other.id), other}

\* C26: two batch calls running concurrently on one BatchProcessor, switched
\* at every await, do not mix their outcomes. At every moment the outcome
\* list of each call holds, in the order of its own URL list, one outcome per
\* item it has finished, each built from that call's own client call and
\* artifact write; the list a call returns has one outcome per URL of its own
\* list; and the instance's results field is never written.
C26_ConcurrentCallsDoNotMix ==
    (InBatch /\ other.id # 0) =>
        /\ thisResults = <<>>
        /\ \A c \in BothCalls :
              /\ Len(c.results) <= Len(c.urls)
              /\ (c.pc \in {"loop", "request", "write"} => Len(c.results) = c.i)
              /\ (c.pc = "returned" => Len(c.results) = Len(c.urls))
              /\ \A k \in 1..Len(c.results) :
                    /\ c.results[k].url = c.urls[k]
                    /\ k <= Len(c.calls) /\ c.calls[k].index = k - 1
                    /\ c.results[k].status = "success" =>
                          /\ c.calls[k].result.ok
                          /\ \E w \in 1..Len(c.writes) :
                                /\ c.writes[w].ok /\ c.writes[w].index = k - 1
                                /\ c.writes[w].path = c.results[k].filepath
                    /\ c.results[k].status = "error" =>
                          IF c.calls[k].result.ok
                          THEN \E w \in 1..Len(c.writes) :
                                  ~c.writes[w].ok /\ c.writes[w].index = k - 1
                          ELSE c.results[k].error = c.calls[k].result.message

C26_Witness ==
    /\ InBatch /\ other.id = 1
    /\ pc = "returned" /\ Len(results) = 2
    /\ results[1].url = other.urls[2] /\ results[2].url = other.urls[1]
    /\ other.pc = "write" /\ other.i = 1 /\ Len(other.results) = 1

====
